---- MODULE Spec2Model ----
(***************************************************************************)
(* Model of src/app/train.py: the experiment pipeline main() with its      *)
(* helpers load_or_create_data, create_visualizations and train_model.     *)
(*                                                                         *)
(* Python values: None is the empty tuple <<>>, a present value v is <<v>>. *)
(* A DataFrame is a sequence of rows [index, category, text, origin]; a     *)
(* row's identity is its position in the sequence (pandas' iloc), its label *)
(* is the field index (pandas' index).  Only the columns category and       *)
(* review_text are carried; rating and price are drawn like category.  Of a *)
(* line of the input file the first field is carried too: it is the row's   *)
(* label when the lines are one field wider than the header.                *)
(* Calls into mlflow, autogluon, matplotlib and the file system either      *)
(* return or raise; which of the two is the environment's choice.           *)
(***************************************************************************)
EXTENDS Integers, Sequences, FiniteSets, TLC

VARIABLES
  pc,           \* position of main()
  args,         \* argparse namespace: [time_limit, label], each None or a value
  config,       \* the mapping read from config.yaml, or the default
  label,        \* effective label (line 122)
  time_limit,   \* effective time_limit (line 123)
  fs,           \* directories that exist
  file,         \* data/product_reviews.csv as main() finds it:
                \* [status, extra, rows]
  min_samples,  \* parameter of load_or_create_data
  data,         \* DataFrame returned by load_or_create_data
  data_source,  \* branch load_or_create_data took
  train_data,   \* positions (iloc) of data that make up train_data
  test_data,    \* positions (iloc) of data that make up test_data
  resplit,      \* result of splitting the same data once more
  run_status,   \* NotStarted, Open, FINISHED, FAILED
  opens,        \* number of runs opened
  closes,       \* number of times the run was ended
  params,       \* parameters recorded on the run (name -> value)
  metrics,      \* metric names recorded on the run
  plots,        \* keys of the plots dictionary of create_visualizations
  write_left,   \* artifact files the write loop has still to visit
  files_left,   \* files the per-file fallback loop has still to visit
  uploaded,     \* logical artifact paths / files the backend accepted
  exc,          \* exception caught by the handler at line 227
  propagated,   \* exception that leaves main()
  attempted,    \* steps that were started
  failed        \* steps that raised

vars == <<pc, args, config, label, time_limit, fs, file, min_samples,
          data, data_source, train_data, test_data, resplit, run_status, opens,
          closes, params, metrics, plots, write_left, files_left, uploaded,
          exc, propagated, attempted, failed>>

cliVars  == <<args, config, label, time_limit>>
dataVars == <<file, min_samples, data, data_source, train_data,
              test_data, resplit>>
runVars  == <<run_status, opens, closes, params, metrics, plots, write_left,
              files_left, uploaded, exc>>

----------------------------------------------------------------------------
(* Bounds *)

MaxRows == 3
DefaultMinSamples == 2

(* Program constants *)

DefaultTimeLimit == 300
Seed == 42
FracNum == 8
FracDen == 10

None == <<>>
Some(v) == <<v>>

\* Values of the column category: np.random.randint(0, 2, n), and the
\* file's own.
Categories == {0, 1}
\* Values of --time_limit and --label taken up.
TimeLimits == {0, 1}
Labels == {"", "rating"}
Columns == {"rating", "review_text", "category", "price"}
ArtifactFiles == <<"leaderboard.csv", "predictions.csv", "model_summary.json">>
\* The directories of setup_directories, in the order they are created.
Dirs == <<"artifacts", "plots", "models">>

----------------------------------------------------------------------------
(* The generator of data.sample(random_state=42) *)

\* The low 16 bits of the first outputs of MT19937 seeded with 42 (numpy's
\* RandomState(42)): 1608637542, 3421126067, 4083286876, 787846414,
\* 3143890026, 3348747335, 2571218620, 2563451924, 670094950, 1914837113.
\* Frames of up to 10 rows draw no further.
Mt19937Low(seed) ==
  IF seed = 42
  THEN <<56422, 15795, 860, 38158, 62570, 54343, 44732, 11284, 54886, 6265>>
  ELSE <<>>

RECURSIVE MaskFrom(_, _)
MaskFrom(m, max) == IF m >= max THEN m ELSE MaskFrom(2 * m + 1, max)

\* The smallest 2^k - 1 that is at least max.
Mask(max) == MaskFrom(0, max)

RECURSIVE Interval(_, _, _, _)
\* rk_interval(max): outputs are masked and rejected until one is at most
\* max; k is the position in the output stream.
Interval(stream, max, mask, k) ==
  LET v == stream[k] % (mask + 1)
  IN  IF v <= max THEN [value |-> v, next |-> k + 1]
      ELSE Interval(stream, max, mask, k + 1)

Swap(x, a, b) == [x EXCEPT ![a] = x[b], ![b] = x[a]]

RECURSIVE ShuffleFrom(_, _, _, _)
\* RandomState.shuffle: for i = n-1 down to 1, swap x[i] with x[j], j drawn
\* from 0..i (x is 1-based here).
ShuffleFrom(stream, x, i, k) ==
  IF i < 1 THEN x
  ELSE LET r == Interval(stream, i, Mask(i), k)
       IN  ShuffleFrom(stream, Swap(x, i + 1, r.value + 1), i - 1, r.next)

\* RandomState(seed).permutation(n), as positions 1..n.
Shuffle(n, seed) ==
  ShuffleFrom(Mt19937Low(seed), [i \in 1..n |-> i], n - 1, 1)

----------------------------------------------------------------------------
(* DataFrames *)

\* pd.read_csv(data_path), no index_col: the file's rows under a fresh
\* RangeIndex; when the lines are one field wider than the header (a
\* trailing delimiter, say) the first field of each line is the row's label.
ReadCsv(f) ==
  [i \in 1..Len(f.rows) |->
     [index |-> IF f.extra THEN f.rows[i].first ELSE i - 1,
      category |-> f.rows[i].category, text |-> "real", origin |-> "file"]]

\* The synthetic frame of lines 32-37 and 41-46: n rows, review_text
\* "Review i", RangeIndex; draws are what np.random.randint(0, 2, n) of the
\* unseeded global generator returned.
SyntheticData(n, draws) ==
  [i \in 1..n |->
     [index |-> i - 1, category |-> draws[i], text |-> "Review " \o ToString(i - 1),
      origin |-> "synthetic"]]

\* pd.concat([a, b], ignore_index=True): rows of a, then rows of b,
\* relabelled 0..len-1.
Concat(a, b) ==
  LET c == a \o b
  IN  [i \in 1..Len(c) |-> [c[i] EXCEPT !.index = i - 1]]

\* load_or_create_data where any exception of read_csv is swallowed.
LoadOrCreateDataCatchAll(f, min, draws) ==
  IF f.status = "ok"
  THEN LET df == ReadCsv(f)
       IN  IF Len(df) < min
           THEN [raised |-> None, source |-> "padded",
                 data |-> Concat(df, SyntheticData(min, draws))]
           ELSE [raised |-> None, source |-> "loaded", data |-> df]
  ELSE [raised |-> None, source |-> "synthetic",
        data |-> SyntheticData(min, draws)]

\* load_or_create_data(data_path, min_samples), draws being what the global
\* generator returns if asked: the frame, the branch taken and the exception
\* that leaves the function (if any).
LoadOrCreateData(f, min, draws) ==
  IF f.status = "ok"
  THEN LET df == ReadCsv(f)
       IN  IF Len(df) < min
           THEN [raised |-> None, source |-> "padded",
                 data |-> Concat(df, SyntheticData(min, draws))]
           ELSE [raised |-> None, source |-> "loaded", data |-> df]
  ELSE IF f.status = "missing"
  THEN [raised |-> None, source |-> "synthetic",
        data |-> SyntheticData(min, draws)]
  ELSE [raised |-> Some("read_csv"), source |-> "none", data |-> <<>>]

\* Number of rows data.sample(frac=0.8) takes: round(frac * n).  8n/10 is
\* never halfway between two integers, so round is floor(x + 1/2).
SampleSize(n) == (2 * FracNum * n + FracDen) \div (2 * FracDen)

\* data.sample(frac=0.8, random_state=seed): the positions drawn, the first
\* round(0.8 n) of the permutation of a generator of its own.
Sample(df, seed) == SubSeq(Shuffle(Len(df), seed), 1, SampleSize(Len(df)))

Range(seq) == {seq[i] : i \in 1..Len(seq)}

\* train_data.index: the labels of the sampled rows.
IndexOf(df, pos) == {df[pos[i]].index : i \in 1..Len(pos)}

RECURSIVE Keep(_, _, _)
\* Positions i..Len(df) of df whose label is not in labels, in order.
Keep(df, labels, i) ==
  IF i > Len(df) THEN <<>>
  ELSE (IF df[i].index \in labels THEN <<>> ELSE <<i>>) \o Keep(df, labels, i + 1)

\* data.drop(labels): every row whose label is in labels is removed.
Drop(df, labels) == Keep(df, labels, 1)

\* Lines 138-139.
SplitData(df) ==
  LET t == Sample(df, Seed)
  IN  [train |-> t, test |-> Drop(df, IndexOf(df, t))]

----------------------------------------------------------------------------
(* Configuration *)

TruthyInt(o) == o # None /\ o[1] # 0
TruthyStr(o) == o # None /\ o[1] # ""

\* Python's a or b: a when a is truthy, else b.
OrInt(a, b) == IF TruthyInt(a) THEN a ELSE b
OrStr(a, b) == IF TruthyStr(a) THEN a ELSE b

DefaultConfig ==
  [kind |-> "mapping", label |-> Some("rating"),
   time_limit |-> Some(DefaultTimeLimit)]

\* config.yaml: absent or unreadable; or a document yaml.safe_load returns:
\* a mapping (here: one that sets both keys, and the empty mapping, of which
\* config.get(key) is None), or something else (None for an empty file, a
\* list, a scalar), which has no get.
ConfigFiles ==
  {[status |-> "unreadable",
    content |-> [kind |-> "other", label |-> None, time_limit |-> None]],
   [status |-> "ok",
    content |-> [kind |-> "other", label |-> None, time_limit |-> None]],
   [status |-> "ok",
    content |-> [kind |-> "mapping", label |-> None, time_limit |-> None]],
   [status |-> "ok",
    content |-> [kind |-> "mapping", label |-> Some("price"),
                 time_limit |-> Some(60)]]}

\* Effective time_limit, line 123.
EffectiveTimeLimit(a, c) == OrInt(a, c)

\* Effective label, line 122.
EffectiveLabel(a, c) == OrStr(a, c)

\* The lines of a table of n rows: the first field (a rating) and the
\* column category alternate, so that rows equal by value occur.
FileRows(n) ==
  [i \in 1..n |-> [first |-> 5 - ((i - 1) % 2), category |-> (i - 1) % 2]]

\* The input file: absent, unreadable for another reason, or a table, whose
\* lines are as wide as the header or one field wider.
Files ==
  {[status |-> "missing", extra |-> FALSE, rows |-> <<>>],
   [status |-> "error", extra |-> FALSE, rows |-> <<>>]} \cup
  {[status |-> "ok", extra |-> FALSE, rows |-> FileRows(n)] : n \in 0..MaxRows} \cup
  {[status |-> "ok", extra |-> TRUE, rows |-> FileRows(n)] : n \in 1..MaxRows}

\* Entries an earlier run may have left in the artifacts directory
\* (makedirs(exist_ok=True) reuses it): a regular file and a directory.
StaleEntries == {"old_run.txt", "subdir"}

\* os.path.isfile(fp).
IsFile(name) == name # "subdir"

----------------
(* The steps of main().  A step is named by a pair <<kind, name>>. *)

Step(kind, name) == <<kind, name>>

ParamNames == {"label", "time_limit", "train_samples", "test_samples",
               "timestamp", "error"}

NoParams == [label |-> None, time_limit |-> None, train_samples |-> None,
             test_samples |-> None, timestamp |-> None, error |-> None]

\* An exception raised inside the try block of lines 144-226: control moves
\* to the handler of line 227.
Raise(site) ==
  /\ exc' = Some(site)
  /\ failed' = failed \cup {site}
  /\ pc' = "handler"

\* An exception raised outside the with block: it leaves main().
Abort(site) ==
  /\ propagated' = Some(site)
  /\ failed' = failed \cup {site}
  /\ pc' = "done"

\* Lines 97-102: parse_args (which exits on arguments it cannot parse),
\* then, args being assigned, setup_directories, which makes the directories
\* one by one: when os.makedirs raises on one, those before it exist.
ParseArgs ==
  /\ pc = "parse_args"
  /\ \E outcome \in {"ok", "parse_args", "setup_directories"} :
       IF outcome = "parse_args"
       THEN /\ Abort(Step("call", outcome))
            /\ UNCHANGED <<args, fs>>
       ELSE /\ \E t \in {None} \cup {Some(n) : n \in TimeLimits},
                  l \in {None} \cup {Some(x) : x \in Labels} :
                 args' = [time_limit |-> t, label |-> l]
            /\ IF outcome = "ok"
               THEN /\ fs' = fs \cup Range(Dirs)
                    /\ pc' = "setup_tracking"
                    /\ UNCHANGED <<propagated, failed>>
               ELSE /\ \E k \in 1..Len(Dirs) :
                         fs' = fs \cup Range(SubSeq(Dirs, 1, k - 1))
                    /\ Abort(Step("call", outcome))
  /\ UNCHANGED <<config, label, time_limit, dataVars, runVars, attempted>>

\* Lines 104-111: set_tracking_uri; create_experiment, or when that raises
\* get_experiment_by_name(...).experiment_id; set_experiment.  The
\* experiment is created or reused, or one of the calls raises and main()
\* ends.  experiment_id is not used afterwards.
SetupTracking ==
  /\ pc = "setup_tracking"
  /\ \E outcome \in {"created", "reused", "set_tracking_uri",
                     "get_experiment_by_name", "set_experiment"} :
       IF outcome \in {"created", "reused"}
       THEN /\ pc' = "load_config"
            /\ UNCHANGED <<propagated, failed>>
       ELSE Abort(Step("call", outcome))
  /\ UNCHANGED <<cliVars, fs, dataVars, runVars, attempted>>

\* Lines 113-120: what yaml.safe_load returns, or the default on any error.
LoadConfig ==
  /\ pc = "load_config"
  /\ \E cf \in ConfigFiles :
       config' = IF cf.status = "ok" THEN cf.content ELSE DefaultConfig
  /\ pc' = "resolve"
  /\ UNCHANGED <<args, label, time_limit, fs, dataVars, runVars, propagated,
                 attempted, failed>>

\* Lines 122-123: `or` calls config.get only when the argument is falsy;
\* config.get raises when config is no mapping, line 122 before line 123.
Resolve ==
  /\ pc = "resolve"
  /\ LET getLabel == ~TruthyStr(args.label)
         getLimit == ~TruthyInt(args.time_limit)
     IN  /\ attempted' = IF getLabel \/ getLimit
                         THEN attempted \cup {Step("call", "config.get")}
                         ELSE attempted
         /\ IF config.kind = "mapping" \/ (~getLabel /\ ~getLimit)
            THEN /\ label' = EffectiveLabel(args.label, config.label)
                 /\ time_limit' =
                      EffectiveTimeLimit(args.time_limit, config.time_limit)
                 /\ pc' = "load_data"
                 /\ UNCHANGED <<propagated, failed>>
            ELSE /\ Abort(Step("call", "config.get"))
                 /\ label' = IF getLabel THEN label ELSE args.label
                 /\ UNCHANGED time_limit
  /\ UNCHANGED <<args, config, fs, dataVars, runVars>>

\* Lines 135-136: load_or_create_data(data_path); an exception leaves main().
LoadData ==
  /\ pc = "load_data"
  /\ \E draws \in [1..min_samples -> Categories] :
       LET r == LoadOrCreateData(file, min_samples, draws)
       IN  /\ data' = r.data
           /\ data_source' = r.source
           /\ attempted' = attempted \cup {Step("call", "read_csv")}
           /\ IF r.raised = None
              THEN /\ pc' = "split"
                   /\ UNCHANGED <<propagated, failed>>
              ELSE Abort(Step("call", r.raised[1]))
  /\ UNCHANGED <<cliVars, fs, file, min_samples, train_data, test_data, resplit,
                 runVars>>

\* Lines 138-139.
Split ==
  /\ pc = "split"
  /\ LET r == SplitData(data)
     IN  /\ train_data' = r.train
         /\ test_data' = r.test
  /\ pc' = "start_run"
  /\ UNCHANGED <<cliVars, fs, file, min_samples, data, data_source, resplit,
                 runVars, propagated, attempted, failed>>

\* Lines 138-139 run once more on the same data (the split is repeated to
\* compare the two results).
SplitTwice ==
  /\ pc = "start_run"
  /\ resplit = None
  /\ LET r == SplitData(data)
     IN  resplit' = Some([train |-> r.train, test |-> r.test])
  /\ UNCHANGED <<pc, cliVars, fs, file, min_samples, data, data_source,
                 train_data, test_data, runVars, propagated, attempted, failed>>

\* Lines 141-143: mlflow.start_run() opens the run, or raises.
StartRun ==
  /\ pc = "start_run"
  /\ attempted' = attempted \cup {Step("call", "start_run")}
  /\ \E ok \in BOOLEAN :
       IF ok
       THEN /\ run_status' = "Open"
            /\ opens' = opens + 1
            /\ pc' = "train"
            /\ UNCHANGED <<propagated, failed>>
       ELSE /\ propagated' = Some(Step("call", "start_run"))
            /\ failed' = failed \cup {Step("call", "start_run")}
            /\ pc' = "done"
            /\ UNCHANGED <<run_status, opens>>
  /\ UNCHANGED <<cliVars, fs, dataVars, closes, params, metrics, plots,
                 write_left, files_left, uploaded, exc>>

\* The label names a column of the data.
LabelIsColumn == label # None /\ label[1] \in Columns

\* Lines 145-147 and 81-94: train_model; fit raises when the label is no
\* column, and may raise otherwise, as may predict and leaderboard after it.
\* A call that raises may have written the model directory before.
TrainModel ==
  /\ pc = "train"
  /\ attempted' = attempted \cup {Step("call", "train_model")}
  /\ \E ok \in BOOLEAN :
       IF ok /\ LabelIsColumn
       THEN /\ fs' = fs \cup {"models/autogluon"}
            /\ pc' = "viz_fi"
            /\ UNCHANGED <<exc, failed>>
       ELSE /\ Raise(Step("call", "train_model"))
            /\ \E wrote \in BOOLEAN :
                 fs' = IF wrote THEN fs \cup {"models/autogluon"} ELSE fs
  /\ UNCHANGED <<cliVars, dataVars, run_status, opens, closes, params, metrics,
                 plots, write_left, files_left, uploaded, propagated>>

\* Lines 53-64 without the try/except: a failure leaves
\* create_visualizations.
VizFeatureImportanceUnguarded ==
  /\ pc = "viz_fi"
  /\ attempted' = attempted \cup {Step("plot", "feature_importance")}
  /\ \E ok \in BOOLEAN :
       IF ok
       THEN /\ plots' = plots \cup {"feature_importance"}
            /\ pc' = "viz_pd"
            /\ UNCHANGED <<exc, failed>>
       ELSE /\ Raise(Step("plot", "feature_importance"))
            /\ UNCHANGED plots
  /\ UNCHANGED <<cliVars, fs, dataVars, run_status, opens, closes, params,
                 metrics, write_left, files_left, uploaded, propagated>>

\* Lines 53-64: the feature-importance plot; a failure is printed.
VizFeatureImportance ==
  /\ pc = "viz_fi"
  /\ attempted' = attempted \cup {Step("plot", "feature_importance")}
  /\ \E ok \in BOOLEAN :
       IF ok
       THEN /\ plots' = plots \cup {"feature_importance"}
            /\ UNCHANGED failed
       ELSE /\ failed' = failed \cup {Step("plot", "feature_importance")}
            /\ UNCHANGED plots
  /\ pc' = "viz_pd"
  /\ UNCHANGED <<cliVars, fs, dataVars, run_status, opens, closes, params,
                 metrics, write_left, files_left, uploaded, exc, propagated>>

\* Lines 67-79: the prediction-distribution plot; a failure is printed;
\* create_visualizations returns.
VizPredictionDist ==
  /\ pc = "viz_pd"
  /\ attempted' = attempted \cup {Step("plot", "prediction_dist")}
  /\ \E ok \in BOOLEAN :
       IF ok
       THEN /\ plots' = plots \cup {"prediction_distribution"}
            /\ UNCHANGED failed
       ELSE /\ failed' = failed \cup {Step("plot", "prediction_dist")}
            /\ UNCHANGED plots
  /\ pc' = "log_params"
  /\ UNCHANGED <<cliVars, fs, dataVars, run_status, opens, closes, params,
                 metrics, write_left, files_left, uploaded, exc, propagated>>

\* Lines 152-158: mlflow.log_params.
LogParams ==
  /\ pc = "log_params"
  /\ attempted' = attempted \cup {Step("call", "log_params")}
  /\ \E ok \in BOOLEAN :
       IF ok
       THEN /\ params' = [params EXCEPT
                            !.label = label,
                            !.time_limit = time_limit,
                            !.train_samples = Some(Len(train_data)),
                            !.test_samples = Some(Len(test_data)),
                            !.timestamp = Some("now")]
            /\ pc' = "log_metrics"
            /\ UNCHANGED <<exc, failed>>
       ELSE /\ Raise(Step("call", "log_params"))
            /\ UNCHANGED params
  /\ UNCHANGED <<cliVars, fs, dataVars, run_status, opens, closes, metrics,
                 plots, write_left, files_left, uploaded, propagated>>

\* Lines 160-164: mlflow.log_metrics.
LogMetrics ==
  /\ pc = "log_metrics"
  /\ attempted' = attempted \cup {Step("call", "log_metrics")}
  /\ \E ok \in BOOLEAN :
       IF ok
       THEN /\ metrics' = metrics \cup {"best_score", "avg_score", "model_count"}
            /\ pc' = "prepare"
            /\ UNCHANGED <<exc, failed>>
       ELSE /\ Raise(Step("call", "log_metrics"))
            /\ UNCHANGED metrics
  /\ UNCHANGED <<cliVars, fs, dataVars, run_status, opens, closes, params,
                 plots, write_left, files_left, uploaded, propagated>>

\* Lines 166-180: the three file contents and artifacts_map.
PrepareArtifacts ==
  /\ pc = "prepare"
  /\ attempted' = attempted \cup {Step("call", "prepare")}
  /\ \E ok \in BOOLEAN :
       IF ok
       THEN /\ write_left' = ArtifactFiles
            /\ pc' = "write"
            /\ UNCHANGED <<exc, failed>>
       ELSE /\ Raise(Step("call", "prepare"))
            /\ UNCHANGED write_left
  /\ UNCHANGED <<cliVars, fs, dataVars, run_status, opens, closes, params,
                 metrics, plots, files_left, uploaded, propagated>>

\* Lines 183-186: one iteration of the write loop.
WriteArtifact ==
  /\ pc = "write"
  /\ write_left # <<>>
  /\ LET name == Head(write_left)
     IN  /\ attempted' = attempted \cup {Step("write", name)}
         /\ \E ok \in BOOLEAN :
              IF ok
              THEN /\ write_left' = Tail(write_left)
                   /\ pc' = IF Tail(write_left) = <<>> THEN "get_uri" ELSE "write"
                   /\ UNCHANGED <<exc, failed>>
              ELSE /\ Raise(Step("write", name))
                   /\ UNCHANGED write_left
  /\ UNCHANGED <<cliVars, fs, dataVars, run_status, opens, closes, params,
                 metrics, plots, files_left, uploaded, propagated>>

\* Line 191: mlflow.get_artifact_uri().
GetArtifactUri ==
  /\ pc = "get_uri"
  /\ attempted' = attempted \cup {Step("call", "get_artifact_uri")}
  /\ \E ok \in BOOLEAN :
       IF ok
       THEN /\ pc' = "bulk_artifacts"
            /\ UNCHANGED <<exc, failed>>
       ELSE Raise(Step("call", "get_artifact_uri"))
  /\ UNCHANGED <<cliVars, fs, dataVars, run_status, opens, closes, params,
                 metrics, plots, write_left, files_left, uploaded, propagated>>

\* Lines 197-200 and 204-205: bulk upload of the artifacts directory.
BulkArtifacts ==
  /\ pc = "bulk_artifacts"
  /\ IF "artifacts" \in fs
     THEN /\ attempted' = attempted \cup {Step("upload", "artifacts")}
          /\ \E ok \in BOOLEAN :
               IF ok
               THEN /\ uploaded' = uploaded \cup {Step("dir", "artifacts")}
                    /\ pc' = "bulk_plots"
                    /\ UNCHANGED failed
               ELSE /\ failed' = failed \cup {Step("upload", "artifacts")}
                    /\ pc' = "fallback_list"
                    /\ UNCHANGED uploaded
     ELSE /\ pc' = "bulk_plots"
          /\ UNCHANGED <<attempted, uploaded, failed>>
  /\ UNCHANGED <<cliVars, fs, dataVars, run_status, opens, closes, params,
                 metrics, plots, write_left, files_left, exc, propagated>>

\* Lines 201-205: bulk upload of the plots directory.
BulkPlots ==
  /\ pc = "bulk_plots"
  /\ IF "plots" \in fs
     THEN /\ attempted' = attempted \cup {Step("upload", "plots")}
          /\ \E ok \in BOOLEAN :
               IF ok
               THEN /\ uploaded' = uploaded \cup {Step("dir", "plots")}
                    /\ pc' = "model_upload"
                    /\ UNCHANGED failed
               ELSE /\ failed' = failed \cup {Step("upload", "plots")}
                    /\ pc' = "fallback_list"
                    /\ UNCHANGED uploaded
     ELSE /\ pc' = "model_upload"
          /\ UNCHANGED <<attempted, uploaded, failed>>
  /\ UNCHANGED <<cliVars, fs, dataVars, run_status, opens, closes, params,
                 metrics, plots, write_left, files_left, exc, propagated>>

\* Line 207: os.listdir(artifacts_dirpath), inside the handler of line 204
\* and guarded only by the try of line 144.  The listing holds the files
\* just written and whatever an earlier run left; its order is the file
\* system's.
FallbackList ==
  /\ pc = "fallback_list"
  /\ attempted' = attempted \cup {Step("call", "listdir")}
  /\ \E ok \in BOOLEAN :
       IF ok
       THEN /\ \E stale \in SUBSET StaleEntries :
                 files_left' = Range(ArtifactFiles) \cup stale
            /\ pc' = "fallback_file"
            /\ UNCHANGED <<exc, failed>>
       ELSE /\ Raise(Step("call", "listdir"))
            /\ UNCHANGED files_left
  /\ UNCHANGED <<cliVars, fs, dataVars, run_status, opens, closes, params,
                 metrics, plots, write_left, uploaded, propagated>>

\* Lines 208-213: one iteration of the per-file fallback, on the entry the
\* listing yields next; an entry that is no regular file is passed over.
FallbackFile ==
  /\ pc = "fallback_file"
  /\ \E name \in files_left :
       /\ IF IsFile(name)
          THEN /\ attempted' = attempted \cup {Step("file", name)}
               /\ \E ok \in BOOLEAN :
                    IF ok
                    THEN /\ uploaded' = uploaded \cup {Step("file", name)}
                         /\ UNCHANGED failed
                    ELSE /\ failed' = failed \cup {Step("file", name)}
                         /\ UNCHANGED uploaded
          ELSE UNCHANGED <<attempted, uploaded, failed>>
       /\ files_left' = files_left \ {name}
       /\ pc' = IF files_left \ {name} = {} THEN "model_upload" ELSE "fallback_file"
  /\ UNCHANGED <<cliVars, fs, dataVars, run_status, opens, closes, params,
                 metrics, plots, write_left, exc, propagated>>

\* Lines 215-222: upload of the model directory.
ModelUpload ==
  /\ pc = "model_upload"
  /\ IF "models/autogluon" \in fs
     THEN /\ attempted' = attempted \cup {Step("upload", "model")}
          /\ \E ok \in BOOLEAN :
               IF ok
               THEN /\ uploaded' = uploaded \cup {Step("dir", "model")}
                    /\ UNCHANGED failed
               ELSE /\ failed' = failed \cup {Step("upload", "model")}
                    /\ UNCHANGED uploaded
     ELSE UNCHANGED <<attempted, uploaded, failed>>
  /\ pc' = "finish"
  /\ UNCHANGED <<cliVars, fs, dataVars, run_status, opens, closes, params,
                 metrics, plots, write_left, files_left, exc, propagated>>

\* Lines 224-225: the closing prints, with mlflow.get_artifact_uri().
Finish ==
  /\ pc = "finish"
  /\ attempted' = attempted \cup {Step("call", "get_artifact_uri_final")}
  /\ \E ok \in BOOLEAN :
       IF ok
       THEN /\ pc' = "exit"
            /\ UNCHANGED <<exc, failed>>
       ELSE Raise(Step("call", "get_artifact_uri_final"))
  /\ UNCHANGED <<cliVars, fs, dataVars, run_status, opens, closes, params,
                 metrics, plots, write_left, files_left, uploaded, propagated>>

\* Lines 227-230: the handler records str(e) as the parameter error and
\* re-raises e; when log_param itself raises, its exception leaves instead.
Handler ==
  /\ pc = "handler"
  /\ attempted' = attempted \cup {Step("call", "log_param_error")}
  /\ \E ok \in BOOLEAN :
       IF ok
       THEN /\ params' = [params EXCEPT !.error = exc]
            /\ propagated' = exc
            /\ UNCHANGED failed
       ELSE /\ propagated' = Some(Step("call", "log_param_error"))
            /\ failed' = failed \cup {Step("call", "log_param_error")}
            /\ UNCHANGED params
  /\ pc' = "exit"
  /\ UNCHANGED <<cliVars, fs, dataVars, run_status, opens, closes, metrics,
                 plots, write_left, files_left, uploaded, exc>>

\* Line 141: leaving the with block calls mlflow's end_run, FINISHED when
\* the block completed and FAILED when an exception leaves it.  When end_run
\* raises, the run stays as it was and that exception leaves main() in
\* place of any other.
ExitRun ==
  /\ pc = "exit"
  /\ attempted' = attempted \cup {Step("call", "end_run")}
  /\ \E ok \in BOOLEAN :
       IF ok
       THEN /\ run_status' = IF propagated = None THEN "FINISHED" ELSE "FAILED"
            /\ closes' = closes + 1
            /\ UNCHANGED <<propagated, failed>>
       ELSE /\ propagated' = Some(Step("call", "end_run"))
            /\ failed' = failed \cup {Step("call", "end_run")}
            /\ UNCHANGED <<run_status, closes>>
  /\ pc' = "done"
  /\ UNCHANGED <<cliVars, fs, dataVars, opens, params, metrics, plots,
                 write_left, files_left, uploaded, exc>>

----------------------------------------------------------------------------
(* Specifications *)

InitCommon ==
  /\ args = [time_limit |-> None, label |-> None]
  /\ config = [kind |-> "mapping", label |-> None, time_limit |-> None]
  /\ label = None
  /\ time_limit = None
  /\ fs = {}
  /\ file \in Files
  /\ data = <<>>
  /\ data_source = "none"
  /\ train_data = <<>>
  /\ test_data = <<>>
  /\ resplit = None
  /\ run_status = "NotStarted"
  /\ opens = 0
  /\ closes = 0
  /\ params = NoParams
  /\ metrics = {}
  /\ plots = {}
  /\ write_left = <<>>
  /\ files_left = {}
  /\ uploaded = {}
  /\ exc = None
  /\ propagated = None
  /\ attempted = {}
  /\ failed = {}

\* main(): load_or_create_data is called with its default min_samples.
Init ==
  /\ InitCommon
  /\ pc = "parse_args"
  /\ min_samples = DefaultMinSamples

Next ==
  \/ ParseArgs
  \/ SetupTracking
  \/ LoadConfig
  \/ Resolve
  \/ LoadData
  \/ Split
  \/ StartRun
  \/ TrainModel
  \/ VizFeatureImportance
  \/ VizPredictionDist
  \/ LogParams
  \/ LogMetrics
  \/ PrepareArtifacts
  \/ WriteArtifact
  \/ GetArtifactUri
  \/ BulkArtifacts
  \/ BulkPlots
  \/ FallbackList
  \/ FallbackFile
  \/ ModelUpload
  \/ Finish
  \/ Handler
  \/ ExitRun

Spec == Init /\ [][Next]_vars

\* load_or_create_data and the split on their own, for every min_samples
\* from 1 to one more than the default.
InitData ==
  /\ InitCommon
  /\ pc = "load_data"
  /\ min_samples \in 1..(DefaultMinSamples + 1)

NextData ==
  \/ LoadData
  \/ Split
  \/ SplitTwice

SpecData == InitData /\ [][NextData]_vars

----------------------------------------------------------------------------
(* Properties *)

PlotSteps == {Step("plot", "feature_importance"), Step("plot", "prediction_dist")}

WriteSteps == {Step("write", ArtifactFiles[i]) : i \in 1..Len(ArtifactFiles)}

DirUploadSteps ==
  {Step("upload", "artifacts"), Step("upload", "plots"), Step("upload", "model")}

UploadSteps ==
  DirUploadSteps \cup {Step("call", "listdir")} \cup
  {Step("file", f) : f \in Range(ArtifactFiles) \cup StaleEntries}

Closed == run_status \in {"FINISHED", "FAILED"}

\* The upload step (line 197) was reached: everything before it returned.
ReachedUpload ==
  /\ Step("call", "get_artifact_uri") \in attempted
  /\ Step("call", "get_artifact_uri") \notin failed

\* Lines 122-123 have run to their end: main() is at line 136 or past it.
Resolved == pc = "load_data" \/ Step("call", "read_csv") \in attempted

\* load_or_create_data has returned a frame.
Loaded == data_source \in {"loaded", "padded", "synthetic"}

\* Lines 138-139 have run.
SplitDone == Loaded /\ pc \notin {"load_data", "split"}

\* C1: a run that main() opens is closed exactly once on every path, normal
\* or raising; main() never ends with the run Open; a closed run is never
\* open again.
C1_RunClosedExactlyOnce ==
  /\ opens <= 1
  /\ closes <= opens
  /\ run_status = "NotStarted" <=> opens = 0
  /\ run_status = "Open" => closes = 0
  /\ Closed => closes = 1
  /\ (pc = "done" /\ opens = 1) => (Closed /\ closes = 1)

\* C2: when a step inside the open run raises, the parameter error holds the
\* message before the run closes, the run ends FAILED, and the exception
\* leaving main() is the one that was raised.
C2_ErrorRecordedOriginalReraised ==
  (exc # None /\ pc \in {"exit", "done"}) =>
     /\ params.error = exc
     /\ propagated = exc
     /\ pc = "done" => run_status = "FAILED"

\* C3: when everything up to the upload step succeeded and only upload steps
\* (bulk artifacts, bulk plots, listing, per-file, model) fail, the run ends
\* FINISHED, no error parameter is recorded and main() does not raise.
C3_UploadFailureNeverFails ==
  (pc = "done" /\ ReachedUpload /\ failed \subseteq (UploadSteps \cup PlotSteps)) =>
     /\ run_status = "FINISHED"
     /\ params.error = None
     /\ propagated = None

\* C4: a readable file with n < min_samples rows gives exactly min_samples
\* rows: the n rows of the file unchanged, then min_samples - n synthetic.
C4_PaddedToExactlyMinRows ==
  (data_source \in {"loaded", "padded"} /\ Len(file.rows) < min_samples) =>
     /\ Len(data) = min_samples
     /\ \A i \in 1..Len(file.rows) :
          /\ i <= Len(data)
          /\ data[i].origin = "file"
          /\ data[i].category = file.rows[i].category
     /\ Cardinality({i \in 1..Len(data) : data[i].origin = "synthetic"})
          = min_samples - Len(file.rows)

\* C5: the dataset is synthesized whole only when the file is missing; any
\* other read error leaves load_or_create_data and main() with no run
\* opened, recorded to or closed.
C5_OnlyMissingFileSynthesizes ==
  /\ data_source = "synthetic" => file.status = "missing"
  /\ (file.status = "error" /\ Step("call", "read_csv") \in attempted) =>
       /\ pc = "done"
       /\ propagated = Some(Step("call", "read_csv"))
       /\ data_source = "none"
       /\ run_status = "NotStarted"
       /\ opens = 0
       /\ closes = 0
       /\ params = NoParams
       /\ metrics = {}
       /\ uploaded = {}

\* C5 witness: the file is unreadable and main() has ended with the read
\* error.
C5_Witness ==
  /\ pc = "done"
  /\ file.status = "error"
  /\ propagated = Some(Step("call", "read_csv"))

\* No position occurs twice in seq.
NoRepeat(seq) == \A i, j \in 1..Len(seq) : seq[i] = seq[j] => i = j

\* C6: for every frame load_or_create_data returns, splitting again gives
\* the same train and test, no row is in both, and every row (by position,
\* not by value) is in exactly one of them.
C6_SplitDeterministicPartition ==
  SplitDone =>
     /\ NoRepeat(train_data)
     /\ NoRepeat(test_data)
     /\ Range(train_data) \cap Range(test_data) = {}
     /\ Range(train_data) \cup Range(test_data) = 1..Len(data)
     /\ resplit # None =>
          (resplit[1].train = train_data /\ resplit[1].test = test_data)

\* C7: once create_visualizations has been entered and left, the
\* prediction-distribution plot was attempted whatever became of the
\* feature-importance plot; a plot failure is never the exception the
\* handler sees; recording goes on after it; and a run in which only plots
\* failed ends FINISHED with nothing raised.
C7_PlotsIndependentNonFatal ==
  /\ (Step("plot", "feature_importance") \in attempted /\ pc \notin {"viz_pd"}) =>
        Step("plot", "prediction_dist") \in attempted
  /\ \A p \in PlotSteps : exc # Some(p)
  /\ (failed \cap PlotSteps # {} /\ pc \notin {"viz_pd", "log_params"}) =>
        Step("call", "log_params") \in attempted
  /\ (pc = "done" /\ opens = 1 /\ failed \subseteq PlotSteps) =>
        (run_status = "FINISHED" /\ propagated = None /\ params.error = None)

\* C7 witness: the feature-importance plot failed, the prediction
\* distribution plot was saved, and the run ended FINISHED.
C7_Witness ==
  /\ pc = "done"
  /\ Step("plot", "feature_importance") \in failed
  /\ "prediction_distribution" \in plots
  /\ run_status = "FINISHED"

\* C8: in every execution that reaches the artifact-writing step a write is
\* attempted for each of the three files, also when one write fails: once
\* the write loop has been left, all three writes were attempted.
C8_EveryWriteAttempted ==
  (attempted \cap WriteSteps # {} /\ pc # "write") => WriteSteps \subseteq attempted

\* C9: a supplied --time_limit (--label) is the effective time_limit
\* (label), for every value, 0 and the empty string included.
C9_CliOverrides ==
  Resolved =>
     /\ args.time_limit # None => time_limit = args.time_limit
     /\ args.label # None => label = args.label

\* C10: in every execution that reaches the upload step an upload is
\* attempted for each of artifacts, plots and model, also when the upload of
\* another directory fails: once the upload section (lines 197-222) has run
\* to its end, all three uploads were attempted.
C10_EveryDirectoryUploadAttempted ==
  (ReachedUpload /\ pc = "finish") => DirUploadSteps \subseteq attempted

====
